---- MODULE Spec2Model ----
(***************************************************************************)
(* Model of run_sql_script.py: a one-shot command line run that validates  *)
(* its arguments, loads the CSV files of a folder as tables of an          *)
(* in-memory engine, executes one SQL query, logs a preview and saves the  *)
(* result under outputs/.                                                  *)
(*                                                                         *)
(* Strings are sequences of tokens.  "/" and "." are tokens of their own   *)
(* and no other token contains either character, so prefix, suffix,        *)
(* basename and splitext on token sequences agree with the same operations *)
(* on the characters.                                                      *)
(***************************************************************************)
EXTENDS Integers, Sequences, FiniteSets, TLC

\* ------------------------------------------------------------------ bounds
MaxDirs == 2          \* directory segments in front of the query file name
MaxFiles == 3         \* entries that os.listdir returns for the data folder
MaxRows == 7          \* rows of a result in the preview specification
MaxCap == 7           \* row cap in the preview specification

\* default of the max_rows parameter of log_results_preview
DefaultMaxRows == 10

\* ----------------------------------------------------------- string model
SEP == "/"
DOT == "."

Min(a, b) == IF a < b THEN a ELSE b
Max(a, b) == IF a > b THEN a ELSE b

\* str.lower() on one token
LowerTok(t) == CASE t = "SQL" -> "sql" [] t = "CSV" -> "csv" [] t = "Q" -> "q" [] OTHER -> t

\* str.lower()
Lower(s) == [i \in DOMAIN s |-> LowerTok(s[i])]

\* str.startswith(pre)
StartsWith(s, pre) == Len(s) >= Len(pre) /\ SubSeq(s, 1, Len(pre)) = pre

\* str.endswith(suf)
EndsWith(s, suf) == Len(s) >= Len(suf) /\ SubSeq(s, Len(s) - Len(suf) + 1, Len(s)) = suf

\* str.rfind(c), 1-based, 0 when c does not occur
RFind(s, c) == IF \E i \in DOMAIN s : s[i] = c THEN CHOOSE i \in DOMAIN s : s[i] = c /\ \A j \in DOMAIN s : s[j] = c => j <= i ELSE 0

\* s[k:] of Python, k counted in tokens
Drop(s, k) == SubSeq(s, k + 1, Len(s))

\* os.path.basename
Basename(p) == Drop(p, RFind(p, SEP))

\* os.path.dirname: the head up to the last separator, trailing separators
\* stripped unless the head consists of separators only
RECURSIVE RStripSep(_)
RStripSep(h) == IF h # <<>> /\ h[Len(h)] = SEP THEN RStripSep(SubSeq(h, 1, Len(h) - 1)) ELSE h

Dirname(p) == LET head == SubSeq(p, 1, RFind(p, SEP)) IN IF RStripSep(head) = <<>> THEN head ELSE RStripSep(head)

\* os.path.splitext(p)[0]: the extension starts at the last dot of the last
\* path component, but only if a character other than a dot precedes that
\* dot inside the component; leading dots never start an extension
SplitExtRoot(p) == LET sepIndex == RFind(p, SEP) dotIndex == RFind(p, DOT) IN IF dotIndex > sepIndex /\ \E k \in (sepIndex + 1)..(dotIndex - 1) : p[k] # DOT THEN SubSeq(p, 1, dotIndex - 1) ELSE p

SqlSuffix == <<".", "sql">>
CsvSuffix == <<".", "csv">>
QueriesPrefix == <<"queries", "/">>
OutputsPrefix == <<"outputs", "/">>
OutputSuffix == <<"_output", ".", "csv">>

\* the derivation without the queries/ branch: every result lands directly
\* in outputs/
OutputPathFlat(sql_file_path) == OutputsPrefix \o SplitExtRoot(Basename(sql_file_path)) \o OutputSuffix

\* save_results_to_csv, the derivation of output_csv_path
OutputPath(sql_file_path) == IF StartsWith(sql_file_path, QueriesPrefix) THEN OutputsPrefix \o SplitExtRoot(Drop(sql_file_path, Len(QueriesPrefix))) \o OutputSuffix ELSE OutputsPrefix \o SplitExtRoot(Basename(sql_file_path)) \o OutputSuffix

\* ------------------------------------------------- paths given on the command line
DirNames == {<<"queries">>, <<".", ".">>, <<"a">>, <<>>}
FileNames == {<<"q", ".", "sql">>, <<"Q", ".", "SQL">>, <<".", "sql">>, <<"q", ".", "a", ".", "sql">>, <<"q", ".", "txt">>}

RECURSIVE JoinDirs(_)
JoinDirs(ds) == IF ds = <<>> THEN <<>> ELSE Head(ds) \o <<SEP>> \o JoinDirs(Tail(ds))

DirSeqs == UNION {[1..n -> DirNames] : n \in 0..MaxDirs}
Paths == {JoinDirs(ds) \o f : ds \in DirSeqs, f \in FileNames}

\* ------------------------------------------------- contents of the data folder
DataFiles == {<<"a", ".", "csv">>, <<"a", ".", "CSV">>, <<"b", ".", "csv">>, <<"c", ".", "txt">>}

\* what os.listdir can return: distinct names in any order
Listings == {l \in UNION {[1..n -> DataFiles] : n \in 0..MaxFiles} : \A i, j \in DOMAIN l : l[i] = l[j] => i = j}

\* the list comprehension of load_csv_files: keep the names ending in .csv
RECURSIVE FilterCsv(_)
FilterCsv(l) == IF l = <<>> THEN <<>> ELSE IF EndsWith(Lower(Head(l)), CsvSuffix) THEN <<Head(l)>> \o FilterCsv(Tail(l)) ELSE FilterCsv(Tail(l))

\* table_name = os.path.splitext(csv_file)[0]
TableName(csv_file) == SplitExtRoot(csv_file)

\* conn.register(table_name, df): a name registered again is replaced
Register(cat, name, src) == {t \in cat : t.name # name} \cup {[name |-> name, src |-> src]}

\* ------------------------------------------------------------ query and result
NoneQuery == [isNone |-> TRUE, refs |-> {}, ok |-> FALSE]
Queries == [isNone : {FALSE}, refs : {{<<"a">>}, {<<"zz">>}}, ok : BOOLEAN]

NoneDF == [isNone |-> TRUE, rows |-> 0]
DF(n) == [isNone |-> FALSE, rows |-> n]
ResultSizes == {0, 1, DefaultMaxRows + 1}

\* the engine accepts a query only if it parses and every table it names is
\* in the catalog
EngineAccepts(q, cat) == q.ok /\ q.refs \subseteq {t.name : t \in cat}

\* ------------------------------------------------------------------- logging
Entry(level, msg, n) == [level |-> level, msg |-> msg, n |-> n]
Info(msg, n) == Entry("INFO", msg, n)

\* DataFrame.head(n) on a frame of `rows` rows: the number of rows kept
HeadLen(rows, n) == IF n >= 0 THEN Min(n, rows) ELSE Max(rows + n, 0)

\* the preview with >= in place of > in the test for omitted rows
LogResultsPreviewGe(rows, cap) == LET header == Info("preview_header", Min(cap, rows)) IN IF rows = 0 THEN <<header, Info("no_rows", 0)>> ELSE <<header, Info("columns", 0), Info("blank", 0), Info("preview_rows", HeadLen(rows, cap))>> \o (IF rows >= cap THEN <<Info("more_rows", rows - cap)>> ELSE <<>>) \o <<Info("separator", 0)>>

\* log_results_preview: the entries it logs
LogResultsPreview(rows, cap) == LET header == Info("preview_header", Min(cap, rows)) IN IF rows = 0 THEN <<header, Info("no_rows", 0)>> ELSE <<header, Info("columns", 0), Info("blank", 0), Info("preview_rows", HeadLen(rows, cap))>> \o (IF rows > cap THEN <<Info("more_rows", rows - cap)>> ELSE <<>>) \o <<Info("separator", 0)>>

StartBanner == <<Info("rule", 0), Info("title", 0), Info("rule", 0), Info("started_at", 0), Info("sql_file", 0), Info("data_folder", 0), Info("log_file", 0), Info("rule", 0)>>
SuccessBanner == <<Info("rule", 0), Info("completed", 0), Info("results_saved_to", 0), Info("logs_saved_to", 0), Info("rule", 0)>>

\* ------------------------------------------------------------------ the state
VARIABLES
  argc,             \* len(sys.argv)
  sql_file_path,    \* sys.argv[1]
  pc,               \* position of main
  pending,          \* exception in flight when the finally block runs
  exit_status,      \* status of the terminated process, -1 while it runs
  uncaught,         \* the process ended with an exception nothing caught
  fault_at,         \* stage at which an unanticipated fault was raised
  conn,             \* "undefined", "open" or "closed"
  close_count,      \* number of conn.close() calls
  logging_on,       \* logging.basicConfig has installed the handlers
  log,              \* entries written to the log file
  console,          \* lines printed with print()
  csv_files,        \* load_csv_files: csv_files
  malformed,        \* the files for which pd.read_csv or conn.register fails
  idx,              \* load_csv_files: position of the for loop
  loaded_tables,    \* load_csv_files: loaded_tables
  catalog,          \* tables registered in the engine
  sql_query,        \* main: sql_query
  result_df,        \* main: result_df
  max_rows,         \* log_results_preview: max_rows
  output_csv_path,  \* main: output_csv_path, <<>> for None
  fs,               \* files below the working directory that the run can write
  fs_before,        \* the same files when the process started
  made_dirs,        \* directories created with os.makedirs by save_results_to_csv
  executions,       \* number of conn.execute calls
  trace,            \* stages started, in order
  succeeded         \* stages that ran to their end without aborting the run

vars == <<argc, sql_file_path, pc, pending, exit_status, uncaught, fault_at, conn, close_count, logging_on, log, console, csv_files, malformed, idx, loaded_tables, catalog, sql_query, result_df, max_rows, output_csv_path, fs, fs_before, made_dirs, executions, trace, succeeded>>

OldContent == [kind |-> "old", rows |-> 0]
ResultContent(n) == [kind |-> "result", rows |-> n]

\* file.write with mode 'w': create or replace
WriteFile(files, path, content) == {f \in files : f.path # path} \cup {[path |-> path, content |-> content]}

ArgCounts == {3, 4, 5}

InitLocals == /\ pc = "main" /\ pending = "none" /\ exit_status = -1 /\ uncaught = FALSE /\ fault_at = "none"
              /\ conn = "undefined" /\ close_count = 0 /\ logging_on = FALSE /\ log = <<>> /\ console = <<>>
              /\ csv_files = <<>> /\ malformed = {} /\ idx = 0 /\ loaded_tables = <<>> /\ catalog = {}
              /\ sql_query = NoneQuery /\ result_df = NoneDF /\ output_csv_path = <<>>
              /\ made_dirs = {} /\ executions = 0 /\ trace = <<>> /\ succeeded = <<>>

Init == /\ InitLocals
        /\ argc \in ArgCounts
        /\ sql_file_path \in Paths
        /\ max_rows = DefaultMaxRows
        /\ fs \in {{}, {[path |-> OutputPath(sql_file_path), content |-> OldContent]}}
        /\ fs_before = fs

argv == <<argc, sql_file_path, max_rows, fs_before>>
loadv == <<csv_files, malformed, idx, loaded_tables, catalog>>
queryv == <<sql_query, result_df, executions>>
outv == <<output_csv_path, fs, made_dirs>>
connv == <<conn, close_count>>
endv == <<exit_status, uncaught>>

\* sys.exit(1) outside the try block, or an exception nothing catches: the
\* interpreter ends the process with status 1
Terminate(status, isUncaught) == /\ pc' = "done" /\ exit_status' = status /\ uncaught' = isUncaught

\* sys.exit(1) inside the try block: SystemExit is not an Exception, so the
\* except clause is skipped and the finally block runs
SysExit1 == /\ pending' = "SystemExit1" /\ pc' = "finally"

\* an Exception raised inside the try block and not handled by the stage
Raise(stage) == /\ pc' = "except" /\ fault_at' = stage

Start(stage) == trace' = Append(trace, stage)
Succeed(stage) == succeeded' = Append(succeeded, stage)

\* main: the argument count check
CheckArgv ==
  /\ pc = "main"
  /\ IF argc # 4
       THEN /\ console' = Append(console, "usage")
            /\ Terminate(1, FALSE)
       ELSE /\ pc' = "validate"
            /\ UNCHANGED <<console, endv>>
  /\ UNCHANGED <<argv, pending, fault_at, connv, logging_on, log, loadv, queryv, outv, trace, succeeded>>

\* validate_arguments: the diagnostic it prints, "ok" when it returns True
ValidateResult(path, sqlExists, dataExists, dataIsDir) == IF ~sqlExists THEN "sql_not_found" ELSE IF ~EndsWith(Lower(path), SqlSuffix) THEN "not_sql" ELSE IF ~dataExists THEN "data_not_found" ELSE IF ~dataIsDir THEN "not_dir" ELSE "ok"

\* validate_arguments and main's exit when it returns False
ValidateArguments ==
  /\ pc = "validate"
  /\ Start("validate")
  /\ \E sqlExists, dataExists, dataIsDir \in BOOLEAN :
       LET r == ValidateResult(sql_file_path, sqlExists, dataExists, dataIsDir) IN
         IF r = "ok"
           THEN /\ pc' = "setup_logging"
                /\ Succeed("validate")
                /\ UNCHANGED <<console, endv>>
           ELSE /\ console' = Append(console, r)
                /\ Terminate(1, FALSE)
                /\ UNCHANGED succeeded
  /\ UNCHANGED <<argv, pending, fault_at, connv, logging_on, log, loadv, queryv, outv>>

\* setup_logging and the start banner; both run before the try block, so a
\* fault of os.makedirs or of opening the log file reaches the interpreter
SetupLogging ==
  /\ pc = "setup_logging"
  /\ Start("setup_logging")
  /\ \E ok \in BOOLEAN :
       IF ok
         THEN /\ logging_on' = TRUE
              /\ log' = StartBanner
              /\ pc' = "connect"
              /\ Succeed("setup_logging")
              /\ UNCHANGED <<fault_at, endv>>
         ELSE /\ fault_at' = "setup_logging"
              /\ Terminate(1, TRUE)
              /\ UNCHANGED <<logging_on, log, succeeded>>
  /\ UNCHANGED <<argv, pending, connv, console, loadv, queryv, outv>>

\* duckdb.connect(':memory:')
Connect ==
  /\ pc = "connect"
  /\ Start("connect")
  /\ \E ok \in BOOLEAN :
       IF ok
         THEN /\ conn' = "open"
              /\ log' = Append(log, Info("connected", 0))
              /\ pc' = "load"
              /\ Succeed("connect")
              /\ UNCHANGED fault_at
         ELSE /\ Raise("connect")
              /\ UNCHANGED <<conn, log, succeeded>>
  /\ UNCHANGED <<argv, pending, close_count, logging_on, console, loadv, queryv, outv, endv>>

\* load_csv_files up to its for loop: list the folder, keep the .csv names
ListCsvFiles ==
  /\ pc = "load"
  /\ Start("load")
  /\ \/ /\ Raise("load")
        /\ UNCHANGED <<log, loadv>>
     \/ \E l \in Listings :
          LET found == FilterCsv(l) IN
            /\ csv_files' = found
            /\ malformed' \in SUBSET {found[i] : i \in DOMAIN found}
            /\ loaded_tables' = <<>>
            /\ IF found = <<>>
                 THEN /\ log' = Append(log, Entry("WARNING", "no_csv_files", 0))
                      /\ pc' = "check_tables"
                      /\ idx' = 0
                 ELSE /\ log' = Append(log, Info("found_csv_files", Len(found)))
                      /\ pc' = "load_loop"
                      /\ idx' = 1
            /\ UNCHANGED <<catalog, fault_at>>
  /\ UNCHANGED <<argv, pending, connv, logging_on, console, queryv, outv, endv, succeeded>>

\* one iteration of the for loop of load_csv_files
LoadCsvFile ==
  /\ pc = "load_loop"
  /\ idx <= Len(csv_files)
  /\ LET csv_file == csv_files[idx]
         table_name == TableName(csv_file)
     IN IF csv_file \in malformed
          THEN /\ log' = Append(log, Entry("ERROR", "load_failed", idx))
               /\ UNCHANGED <<catalog, loaded_tables>>
          ELSE /\ catalog' = Register(catalog, table_name, csv_file)
               /\ log' = Append(log, Info("loaded", idx))
               /\ loaded_tables' = Append(loaded_tables, table_name)
  /\ idx' = idx + 1
  /\ pc' = IF idx = Len(csv_files) THEN "check_tables" ELSE "load_loop"
  /\ UNCHANGED <<argv, pending, fault_at, connv, logging_on, console, csv_files, malformed, queryv, outv, endv, trace, succeeded>>

\* the check without its abort: the run goes on with no table loaded
CheckTablesNoAbort ==
  /\ pc = "check_tables"
  /\ log' = Append(log, Info("loaded_tables", Len(loaded_tables)))
  /\ pc' = "read"
  /\ UNCHANGED <<argv, pending, fault_at, connv, logging_on, console, loadv, queryv, outv, endv, trace, succeeded>>

\* the check aborting as soon as one file failed to load
CheckTablesStrict ==
  /\ pc = "check_tables"
  /\ IF Len(loaded_tables) < Len(csv_files) \/ loaded_tables = <<>>
       THEN /\ log' = Append(log, Entry("ERROR", "no_tables", 0))
            /\ SysExit1
            /\ UNCHANGED succeeded
       ELSE /\ log' = Append(log, Info("loaded_tables", Len(loaded_tables)))
            /\ pc' = "read"
            /\ Succeed("load")
            /\ UNCHANGED pending
  /\ UNCHANGED <<argv, fault_at, connv, logging_on, console, loadv, queryv, outv, endv, trace>>

\* main: abort when load_csv_files returned an empty list
CheckTables ==
  /\ pc = "check_tables"
  /\ IF loaded_tables = <<>>
       THEN /\ log' = Append(log, Entry("ERROR", "no_tables", 0))
            /\ SysExit1
            /\ UNCHANGED succeeded
       ELSE /\ log' = Append(log, Info("loaded_tables", Len(loaded_tables)))
            /\ pc' = "read"
            /\ Succeed("load")
            /\ UNCHANGED pending
  /\ UNCHANGED <<argv, fault_at, connv, logging_on, console, loadv, queryv, outv, endv, trace>>

\* read_sql_file and main's exit when it returns None
ReadSqlFile ==
  /\ pc = "read"
  /\ Start("read")
  /\ \/ \E reason \in {"read_failed", "sql_empty"} :
          /\ log' = Append(log, Entry("ERROR", reason, 0))
          /\ sql_query' = NoneQuery
          /\ SysExit1
          /\ UNCHANGED succeeded
     \/ \E q \in Queries :
          /\ log' = Append(log, Info("sql_read", 0))
          /\ sql_query' = q
          /\ pc' = "execute"
          /\ Succeed("read")
          /\ UNCHANGED pending
  /\ UNCHANGED <<argv, fault_at, connv, logging_on, console, loadv, result_df, executions, outv, endv>>

\* execute_sql_query returning an empty frame, not None, when the engine faults
ExecuteSqlQueryEmptyOnFault ==
  /\ pc = "execute"
  /\ Start("execute")
  /\ executions' = executions + 1
  /\ \/ /\ log' = log \o <<Info("executing", 0), Info("query_text", 0), Entry("ERROR", "query_failed", 0)>>
        /\ result_df' = DF(0)
     \/ /\ EngineAccepts(sql_query, catalog)
        /\ \E n \in ResultSizes :
             /\ log' = log \o <<Info("executing", 0), Info("query_text", 0), Info("query_ok", n)>>
             /\ result_df' = DF(n)
  /\ pc' = "preview"
  /\ Succeed("execute")
  /\ UNCHANGED <<argv, pending, fault_at, connv, logging_on, console, loadv, sql_query, outv, endv>>

\* execute_sql_query and main's exit when it returns None
ExecuteSqlQuery ==
  /\ pc = "execute"
  /\ Start("execute")
  /\ executions' = executions + 1
  /\ \/ /\ log' = log \o <<Info("executing", 0), Info("query_text", 0), Entry("ERROR", "query_failed", 0)>>
        /\ result_df' = NoneDF
        /\ SysExit1
        /\ UNCHANGED succeeded
     \/ /\ EngineAccepts(sql_query, catalog)
        /\ \E n \in ResultSizes :
             /\ log' = log \o <<Info("executing", 0), Info("query_text", 0), Info("query_ok", n)>>
             /\ result_df' = DF(n)
        /\ pc' = "preview"
        /\ Succeed("execute")
        /\ UNCHANGED pending
  /\ UNCHANGED <<argv, fault_at, connv, logging_on, console, loadv, sql_query, outv, endv>>

\* main's call of log_results_preview
Preview ==
  /\ pc = "preview"
  /\ Start("preview")
  /\ \/ /\ Raise("preview")
        /\ UNCHANGED <<log, succeeded>>
     \/ /\ log' = log \o LogResultsPreview(result_df.rows, max_rows)
        /\ pc' = "save"
        /\ Succeed("preview")
        /\ UNCHANGED fault_at
  /\ UNCHANGED <<argv, pending, connv, logging_on, console, loadv, queryv, outv, endv>>
PartialContent == [kind |-> "partial", rows |-> 0]

\* save_results_to_csv and main's exit when it returns None.  A fault of
\* os.makedirs leaves the files alone; a fault of to_csv either fails to open
\* the file or leaves it partly written.
SaveResultsToCsv ==
  /\ pc = "save"
  /\ Start("persist")
  /\ LET path == OutputPath(sql_file_path)
         output_dir == Dirname(path)
     IN \E dirExists \in BOOLEAN, fault \in {"none", "makedirs", "open", "write"} :
          /\ (\E f \in fs : Dirname(f.path) = output_dir) => dirExists
          /\ fault = "makedirs" => ~dirExists
          /\ made_dirs' = IF output_dir # <<>> /\ ~dirExists /\ fault # "makedirs" THEN made_dirs \cup {output_dir} ELSE made_dirs
          /\ fs' = CASE fault = "none" -> WriteFile(fs, path, ResultContent(result_df.rows))
                     [] fault = "write" -> WriteFile(fs, path, PartialContent)
                     [] OTHER -> fs
          /\ IF fault = "none"
               THEN /\ log' = Append(log, Info("saved", 0))
                    /\ output_csv_path' = path
                    /\ pc' = "banner"
                    /\ Succeed("persist")
                    /\ UNCHANGED pending
               ELSE /\ log' = Append(log, Entry("ERROR", "save_failed", 0))
                    /\ SysExit1
                    /\ UNCHANGED <<output_csv_path, succeeded>>
  /\ UNCHANGED <<argv, fault_at, connv, logging_on, console, loadv, queryv, endv>>

\* main: the success banner and the console message
Success ==
  /\ pc = "banner"
  /\ Start("banner")
  /\ Succeed("banner")
  /\ log' = log \o SuccessBanner
  /\ console' = Append(console, "success")
  /\ pc' = "finally"
  /\ UNCHANGED <<argv, pending, fault_at, connv, logging_on, loadv, queryv, outv, endv>>

\* the handler without its sys.exit(1)
ExceptHandlerNoExit ==
  /\ pc = "except"
  /\ log' = Append(log, Entry("ERROR", "unexpected_error", 0))
  /\ console' = Append(console, "failed_check_log")
  /\ pc' = "finally"
  /\ UNCHANGED <<argv, pending, fault_at, connv, logging_on, loadv, queryv, outv, endv, trace, succeeded>>

\* the handler without its console message
ExceptHandlerNoPrint ==
  /\ pc = "except"
  /\ log' = Append(log, Entry("ERROR", "unexpected_error", 0))
  /\ SysExit1
  /\ UNCHANGED <<argv, fault_at, connv, logging_on, console, loadv, queryv, outv, endv, trace, succeeded>>

\* main: except Exception
ExceptHandler ==
  /\ pc = "except"
  /\ log' = Append(log, Entry("ERROR", "unexpected_error", 0))
  /\ console' = Append(console, "failed_check_log")
  /\ SysExit1
  /\ UNCHANGED <<argv, fault_at, connv, logging_on, loadv, queryv, outv, endv, trace, succeeded>>

\* the finally block without conn.close()
FinallyNoClose ==
  /\ pc = "finally"
  /\ Terminate(IF pending = "SystemExit1" THEN 1 ELSE 0, FALSE)
  /\ UNCHANGED <<argv, pending, fault_at, connv, log, logging_on, console, loadv, queryv, outv, trace, succeeded>>

\* main: the finally block, then the process ends with the status of the
\* SystemExit in flight, or 0 when main returns
Finally ==
  /\ pc = "finally"
  /\ IF conn # "undefined"
       THEN /\ conn' = "closed"
            /\ close_count' = close_count + 1
            /\ log' = Append(log, Info("connection_closed", 0))
       ELSE UNCHANGED <<connv, log>>
  /\ Terminate(IF pending = "SystemExit1" THEN 1 ELSE 0, FALSE)
  /\ UNCHANGED <<argv, pending, fault_at, logging_on, console, loadv, queryv, outv, trace, succeeded>>

Next ==
  \/ CheckArgv
  \/ ValidateArguments
  \/ SetupLogging
  \/ Connect
  \/ ListCsvFiles
  \/ LoadCsvFile
  \/ CheckTables
  \/ ReadSqlFile
  \/ ExecuteSqlQuery
  \/ Preview
  \/ SaveResultsToCsv
  \/ Success
  \/ ExceptHandler
  \/ Finally

Spec == Init /\ [][Next]_vars

\* ------------------------------------------ log_results_preview on its own
InitPreview ==
  /\ pc = "call_preview" /\ pending = "none" /\ exit_status = -1 /\ uncaught = FALSE /\ fault_at = "none"
  /\ conn = "undefined" /\ close_count = 0 /\ logging_on = TRUE /\ log = <<>> /\ console = <<>>
  /\ csv_files = <<>> /\ malformed = {} /\ idx = 0 /\ loaded_tables = <<>> /\ catalog = {}
  /\ sql_query = NoneQuery /\ output_csv_path = <<>> /\ fs = {} /\ fs_before = {}
  /\ made_dirs = {} /\ executions = 0 /\ trace = <<>> /\ succeeded = <<>>
  /\ argc = 4 /\ sql_file_path = <<>>
  /\ result_df \in {DF(n) : n \in 0..MaxRows}
  /\ max_rows \in 0..MaxCap

PreviewCall ==
  /\ pc = "call_preview"
  /\ log' = LogResultsPreview(result_df.rows, max_rows)
  /\ pc' = "preview_returned"
  /\ UNCHANGED <<argv, pending, fault_at, connv, logging_on, console, loadv, queryv, outv, endv, trace, succeeded>>

NextPreview == PreviewCall

SpecPreview == InitPreview /\ [][NextPreview]_vars
\* ----------------------------------------------------------------- properties
Range(q) == {q[i] : i \in DOMAIN q}
HasLog(msg) == \E i \in DOMAIN log : log[i].msg = msg
StageOrder == <<"validate", "setup_logging", "connect", "load", "read", "execute", "preview", "persist", "banner">>
IsPrefix(a, b) == Len(a) <= Len(b) /\ SubSeq(b, 1, Len(a)) = a
WellFormedIdx == {i \in DOMAIN csv_files : csv_files[i] \notin malformed}
Written == {f \in fs : f.content.kind # "old"}

\* C1: once the connection has been opened it is closed exactly once on every
\* exit path: at process exit it is closed and conn.close() ran once, it is
\* never closed twice, and it is never closed before main reaches its end.
C1_ClosedExactlyOnce ==
  /\ close_count <= 1
  /\ (conn = "closed") = (close_count = 1)
  /\ (pc = "done" /\ "connect" \in Range(succeeded)) => (conn = "closed" /\ close_count = 1)
  /\ (pc # "done") => conn # "closed"

\* the unexpected-fault path ends with the connection closed once
C1_Witness == pc = "done" /\ fault_at = "preview" /\ conn = "closed" /\ close_count = 1 /\ exit_status = 1

\* C2: the exit status is 0 exactly when every stage succeeded and 1 in every
\* other terminated run; no other status occurs.
EveryStageSucceeded ==
  /\ argc = 4
  /\ "validate" \in Range(succeeded)
  /\ logging_on
  /\ loaded_tables # <<>>
  /\ ~sql_query.isNone
  /\ ~result_df.isNone
  /\ \E f \in fs : f.path = OutputPath(sql_file_path) /\ f.content = ResultContent(result_df.rows)
  /\ ~HasLog("save_failed")
  /\ fault_at = "none"

C2_ExitStatus ==
  /\ (pc # "done") => exit_status = -1
  /\ (pc = "done") => (exit_status \in {0, 1} /\ ((exit_status = 0) = EveryStageSucceeded))

\* a run ended with status 1 by the top-level handler
C2_Witness == pc = "done" /\ exit_status = 1 /\ fault_at = "connect" /\ HasLog("unexpected_error")

StageFaulted == fault_at # "none" \/ HasLog("read_failed") \/ HasLog("sql_empty") \/ HasLog("query_failed") \/ HasLog("save_failed")

C4_StageOrder ==
  /\ IsPrefix(trace, StageOrder)
  /\ IsPrefix(succeeded, trace)
  /\ Len(trace) <= Len(succeeded) + 1
  /\ executions <= 1
  /\ (executions = 1) => (loaded_tables # <<>> /\ ~sql_query.isNone)
  /\ (Written # {} \/ made_dirs # {}) => (~result_df.isNone /\ HasLog("query_ok"))
  /\ HasLog("completed") => (output_csv_path # <<>> /\ \E f \in fs : f.path = output_csv_path /\ f.content = ResultContent(result_df.rows))

\* a run that went through all nine stages
C4_Witness == pc = "done" /\ trace = StageOrder /\ succeeded = StageOrder /\ executions = 1

C6_PartialLoad ==
  (pc \in {"check_tables", "read", "execute", "done"} /\ WellFormedIdx # {}) =>
     /\ Cardinality(catalog) = Cardinality(WellFormedIdx)
     /\ Len(loaded_tables) = Cardinality(WellFormedIdx)
     /\ Range(loaded_tables) = {TableName(csv_files[i]) : i \in WellFormedIdx}
     /\ \A i \in WellFormedIdx : [name |-> TableName(csv_files[i]), src |-> csv_files[i]] \in catalog
     /\ (pc # "check_tables") => "load" \in Range(succeeded)

\* the path with its last two tokens, the suffix .sql in either case, removed
StripSqlSuffix(p) == SubSeq(p, 1, Len(p) - Len(SqlSuffix))

\* the part of the query path that is mirrored: the path below queries/, or
\* the bare file name for a query outside queries/
Mirrored(p) == IF StartsWith(p, QueriesPrefix) THEN Drop(p, Len(QueriesPrefix)) ELSE Basename(p)

\* C7 as stated: the output path is outputs/ followed by the path below
\* queries/ (or by the bare file name) with the .sql suffix replaced by
\* _output.csv.
C7_OutputPath ==
  (output_csv_path # <<>>) => output_csv_path = OutputsPrefix \o StripSqlSuffix(Mirrored(sql_file_path)) \o OutputSuffix

\* the file name has a character other than a dot in front of its .sql suffix
HasStem(p) == \E k \in 1..(Len(Basename(p)) - Len(SqlSuffix)) : Basename(p)[k] # DOT

\* C7 amended: as stated for every query file whose name has a character other
\* than a dot in front of the .sql suffix; a file name that is only dots
\* followed by sql (.sql) keeps its whole name and gets _output.csv appended.
C7_OutputPathStem ==
  (output_csv_path # <<>>) =>
     output_csv_path = OutputsPrefix \o (IF HasStem(sql_file_path) THEN StripSqlSuffix(Mirrored(sql_file_path)) ELSE Mirrored(sql_file_path)) \o OutputSuffix

\* queries/a/Q.SQL saved as outputs/a/Q_output.csv
C7_Witness == sql_file_path = <<"queries", "/", "a", "/", "Q", ".", "SQL">> /\ output_csv_path = <<"outputs", "/", "a", "/", "Q", "_output", ".", "csv">> /\ pc = "done"

\* C8 as stated: every unanticipated fault after validation, the ones of
\* logging setup included, is caught, logged, reported on the console and
\* followed by status 1; none leaves the process uncaught.
C8_AllFaultsCaught ==
  /\ ~uncaught
  /\ (pc = "done" /\ fault_at # "none") => (HasLog("unexpected_error") /\ "failed_check_log" \in Range(console) /\ exit_status = 1)

\* C8 amended: every unanticipated fault raised inside the try block of main
\* (from opening the connection on) is caught, logged, reported on the console
\* and followed by status 1; a fault of setup_logging, which runs before the
\* try block, is the only one that leaves the process as an uncaught
\* exception, with status 1 and neither log entry nor console message.
C8_FaultsInTryCaught ==
  /\ uncaught = (pc = "done" /\ fault_at = "setup_logging")
  /\ (pc \in {"finally", "done"} /\ fault_at \notin {"none", "setup_logging"}) => (HasLog("unexpected_error") /\ "failed_check_log" \in Range(console) /\ pending = "SystemExit1")
  /\ (pc = "done" /\ fault_at # "none") => exit_status = 1
  /\ uncaught => (log = <<>> /\ console = <<>>)

\* a fault of the preview, caught by the handler
C8_Witness == pc = "done" /\ fault_at = "preview" /\ ~uncaught /\ HasLog("unexpected_error") /\ "failed_check_log" \in Range(console)

RECURSIVE SumRows(_)
SumRows(l) == IF l = <<>> THEN 0 ELSE (IF Head(l).msg = "preview_rows" THEN Head(l).n ELSE 0) + SumRows(Tail(l))

\* C9: the preview logs min(R, C) rows and never more than C; for R > C it
\* ends with the notice of R - C omitted rows, for 0 < R <= C there is no such
\* notice, and for R = 0 it logs the no-rows notice and neither columns nor
\* rows.
C9_Preview ==
  (pc = "preview_returned") =>
     LET R == result_df.rows
         C == max_rows
     IN /\ SumRows(log) = Min(R, C)
        /\ SumRows(log) <= C
        /\ (R > C) => \E i \in DOMAIN log : /\ log[i] = Info("more_rows", R - C)
                                             /\ \A j \in DOMAIN log : log[j].msg = "preview_rows" => j < i
        /\ (0 < R /\ R <= C) => ~HasLog("more_rows")
        /\ (R = 0) => (HasLog("no_rows") /\ ~HasLog("columns") /\ ~HasLog("preview_rows"))
        /\ (R > 0) => (~HasLog("no_rows") /\ HasLog("columns"))

\* five rows under a cap of three
C9_Witness == pc = "preview_returned" /\ result_df.rows = 5 /\ max_rows = 3 /\ HasLog("more_rows")

\* os.path.normpath of a relative path, on its segments
RECURSIVE Segments(_)
Segments(p) == IF RFind(p, SEP) = 0 THEN <<p>> ELSE Append(Segments(SubSeq(p, 1, RFind(p, SEP) - 1)), Drop(p, RFind(p, SEP)))

RECURSIVE Normalize(_, _)
Normalize(segs, stack) ==
  IF segs = <<>> THEN stack
  ELSE LET h == Head(segs) IN
    IF h = <<>> \/ h = <<DOT>> THEN Normalize(Tail(segs), stack)
    ELSE IF h = <<DOT, DOT>> /\ stack # <<>> /\ stack[Len(stack)] # <<DOT, DOT>> THEN Normalize(Tail(segs), SubSeq(stack, 1, Len(stack) - 1))
    ELSE Normalize(Tail(segs), Append(stack, h))

InsideOutputs(p) == LET n == Normalize(Segments(p), <<>>) IN n # <<>> /\ n[1] = <<"outputs">>

\* C10: every file the run writes and every directory it creates lies inside
\* the outputs/ directory tree.
C10_WritesInsideOutputs ==
  /\ \A f \in Written : InsideOutputs(f.path) /\ Len(Normalize(Segments(f.path), <<>>)) >= 2
  /\ \A d \in made_dirs : InsideOutputs(d)
====
